---- MODULE Spec2Model ----
(***************************************************************************)
(* Model of the grid-world game of src/game-search-algorithm/src/main.rs:  *)
(* the transition model of MazeState (legal_actions, advance, is_done,     *)
(* evaluate_score), the selectors random_action, greedy_action and         *)
(* beam_search_action, the max-heap beam_search_action keeps its frontier  *)
(* in, and the driver loop that advances a game with a selector's action.  *)
(*                                                                         *)
(* Option<T> is a sequence of length at most one: <<>> is None, <<v>> is   *)
(* Some(v).  Vec<T> and the heap's buffer are sequences; a Rust index k is *)
(* the TLA+ index k + 1.  A panic (unwrap of None, index out of range)     *)
(* ends the program: pc = "panic" and no action is enabled.                *)
(***************************************************************************)
EXTENDS Integers, Sequences, FiniteSets, TLC

\* Bounds of the model.  Games start on every board of at most MaxCells
\* cells, on every 2 x 2 board and on 3 x 3 boards from the centre, with
\* cell values up to MaxPoint and a length up to MaxEndTurn; the beam
\* search is called with widths up to MaxWidth (and the number of legal
\* actions) and depths up to MaxDepth.
MaxCells == 3
MaxPoint == 1
MaxEndTurn == 2
MaxWidth == 2
MaxDepth == 2

\* const INF: ScoreType = ScoreType::MAX.  The model's scores stay far below
\* it; it is the largest integer TLC represents.
INF == 2147483647

\* const DX, DY: the column and row delta of actions 0..3.
DX == <<1, -1, 0, 0>>
DY == <<0, 0, 1, -1>>

VARIABLES
  H, W, END_TURN,   \* the board's height and width, and the game's length
  points0,          \* the board as constructed (never changed afterwards)
  state,            \* the driver's MazeState
  pc,               \* "driver", "for_t", "for_w", "ret", "returned", "panic"
  sel,              \* the selector called last: "", "random", "greedy", "beam"
  beam_width, beam_depth,   \* the arguments of beam_search_action
  t,                \* the depth loop's counter
  w_iter,           \* the width loop's counter
  now_beam,         \* the current frontier (heap buffer)
  next_beam,        \* the next frontier (heap buffer)
  best_state,       \* Option<&MazeState>
  expanded,         \* history: the states popped so far at this level
  result,           \* the action the selector returned, Option<usize>
  panic             \* "" or the panic that ended the program

vars == <<H, W, END_TURN, points0, state, pc, sel, beam_width, beam_depth,
          t, w_iter, now_beam, next_beam, best_state, expanded, result,
          panic>>

None == <<>>
Some(v) == <<v>>
is_some(o) == Len(o) = 1
unwrap(o) == o[1]

-----------------------------------------------------------------------------
(* MazeState *)

\* is_done that holds one turn late (END_TURN + 1 for END_TURN)
is_done_late(s) == s.turn = END_TURN + 1

\* fn is_done(&self)
is_done(s) == s.turn = END_TURN

\* in_board with both upper limits off by one (<= for <)
in_board_off_by_one(y, x) == y >= 0 /\ y <= H /\ x >= 0 /\ x <= W

\* the bounds test of legal_actions for the cell (y, x)
in_board(y, x) == y >= 0 /\ y < H /\ x >= 0 /\ x < W

\* legal_actions with the limits of rows and columns exchanged (W for H)
legal_actions_transposed(s) ==
  SelectSeq(<<0, 1, 2, 3>>,
            LAMBDA action :
              LET y == s.character.y + DY[action + 1]
                  x == s.character.x + DX[action + 1]
              IN  y >= 0 /\ y < W /\ x >= 0 /\ x < H)

\* fn legal_actions(&self): the actions 0..3, in this order, whose target
\* cell is on the board
legal_actions(s) ==
  SelectSeq(<<0, 1, 2, 3>>,
            LAMBDA action : in_board(s.character.y + DY[action + 1],
                                     s.character.x + DX[action + 1]))

\* Whether self.points[y as usize][x as usize] is a valid index (a negative
\* i64 cast to usize is out of range).
index_ok(s, y, x) == y \in DOMAIN s.points /\ x \in DOMAIN s.points[y]

\* advance panics at the index when the moved character is off the board
advance_panics(s, action) ==
  ~index_ok(s, s.character.y + DY[action + 1], s.character.x + DX[action + 1])

\* advance with the cell's points overwriting game_score (= for +=)
advance_overwrite(s, action) ==
  LET y == s.character.y + DY[action + 1]
      x == s.character.x + DX[action + 1]
      moved == [s EXCEPT !.character = [y |-> y, x |-> x]]
  IN  IF ~index_ok(s, y, x) THEN moved
      ELSE LET point == s.points[y][x]
           IN  [moved EXCEPT
                  !.game_score = IF point > 0 THEN point ELSE @,
                  !.points[y][x] = IF point > 0 THEN 0 ELSE @,
                  !.turn = @ + 1]

\* advance that does not count the turn
advance_keeps_turn(s, action) ==
  LET y == s.character.y + DY[action + 1]
      x == s.character.x + DX[action + 1]
      moved == [s EXCEPT !.character = [y |-> y, x |-> x]]
  IN  IF ~index_ok(s, y, x) THEN moved
      ELSE LET point == s.points[y][x]
           IN  [moved EXCEPT
                  !.game_score = IF point > 0 THEN @ + point ELSE @,
                  !.points[y][x] = IF point > 0 THEN 0 ELSE @]

\* fn advance(&mut self, action): move, collect the cell's points, count the
\* turn.  When the index panics only the move has happened.
advance(s, action) ==
  LET y == s.character.y + DY[action + 1]
      x == s.character.x + DX[action + 1]
      moved == [s EXCEPT !.character = [y |-> y, x |-> x]]
  IN  IF ~index_ok(s, y, x) THEN moved
      ELSE LET point == s.points[y][x]
           IN  [moved EXCEPT
                  !.game_score = IF point > 0 THEN @ + point ELSE @,
                  !.points[y][x] = IF point > 0 THEN 0 ELSE @,
                  !.turn = @ + 1]

\* evaluate_score that leaves evaluated_score as it was
evaluate_score_skipped(s) == s

\* fn evaluate_score(&mut self)
evaluate_score(s) == [s EXCEPT !.evaluated_score = s.game_score]

-----------------------------------------------------------------------------
(* greedy_action *)

RECURSIVE greedy_loop_stale_best(_, _, _, _)
\* greedy_loop that records the action but never updates best_score
greedy_loop_stale_best(s, actions, best_score, best_action) ==
  IF actions = <<>> THEN [panic |-> "", best_action |-> best_action]
  ELSE LET action == Head(actions)
           now_state == evaluate_score(advance(s, action))
       IN  IF advance_panics(s, action)
           THEN [panic |-> "index", best_action |-> best_action]
           ELSE IF now_state.evaluated_score > best_score
           THEN greedy_loop_stale_best(s, Tail(actions), best_score,
                                       Some(action))
           ELSE greedy_loop_stale_best(s, Tail(actions), best_score,
                                       best_action)

RECURSIVE greedy_loop_last_wins(_, _, _, _)
\* greedy_loop that also replaces the best action on an equal score (>= for >)
greedy_loop_last_wins(s, actions, best_score, best_action) ==
  IF actions = <<>> THEN [panic |-> "", best_action |-> best_action]
  ELSE LET action == Head(actions)
           now_state == evaluate_score(advance(s, action))
       IN  IF advance_panics(s, action)
           THEN [panic |-> "index", best_action |-> best_action]
           ELSE IF now_state.evaluated_score >= best_score
           THEN greedy_loop_last_wins(s, Tail(actions),
                                      now_state.evaluated_score, Some(action))
           ELSE greedy_loop_last_wins(s, Tail(actions), best_score,
                                      best_action)

RECURSIVE greedy_loop(_, _, _, _)
\* the for loop of greedy_action over the remaining legal actions
greedy_loop(s, actions, best_score, best_action) ==
  IF actions = <<>> THEN [panic |-> "", best_action |-> best_action]
  ELSE LET action == Head(actions)
           now_state == evaluate_score(advance(s, action))
       IN  IF advance_panics(s, action)
           THEN [panic |-> "index", best_action |-> best_action]
           ELSE IF now_state.evaluated_score > best_score
           THEN greedy_loop(s, Tail(actions), now_state.evaluated_score,
                            Some(action))
           ELSE greedy_loop(s, Tail(actions), best_score, best_action)

\* greedy_action that falls back to action 0 when no action was recorded
\* (unwrap_or(0) for unwrap())
greedy_action_default(s) ==
  LET r == greedy_loop(s, legal_actions(s), -INF, None)
  IN  IF r.panic # "" THEN [panic |-> r.panic, action |-> None]
      ELSE IF ~is_some(r.best_action)
      THEN [panic |-> "", action |-> Some(0)]
      ELSE [panic |-> "", action |-> r.best_action]

\* fn greedy_action(&self): [panic, action]; best_action.unwrap() panics on
\* None
greedy_action(s) ==
  LET r == greedy_loop(s, legal_actions(s), -INF, None)
  IN  IF r.panic # "" THEN [panic |-> r.panic, action |-> None]
      ELSE IF ~is_some(r.best_action)
      THEN [panic |-> "unwrap", action |-> None]
      ELSE [panic |-> "", action |-> r.best_action]

-----------------------------------------------------------------------------
(* impl Ord for MazeState, and std's BinaryHeap over it *)

\* a <= b under Ord::cmp: states compare by evaluated_score alone
le(a, b) == a.evaluated_score <= b.evaluated_score

\* the buffer with the elements at Rust indices p and q exchanged
swap(data, p, q) ==
  [data EXCEPT ![p + 1] = data[q + 1], ![q + 1] = data[p + 1]]

RECURSIVE sift_up_on_ties(_, _, _)
\* sift_up that also rises past an equal parent (< for <=)
sift_up_on_ties(data, start, pos) ==
  IF pos > start
  THEN LET parent == (pos - 1) \div 2
       IN  IF data[pos + 1].evaluated_score < data[parent + 1].evaluated_score
           THEN data
           ELSE sift_up_on_ties(swap(data, pos, parent), start, parent)
  ELSE data

RECURSIVE sift_up(_, _, _)
\* BinaryHeap::sift_up(start, pos): the element at pos rises while it is
\* strictly greater than its parent
sift_up(data, start, pos) ==
  IF pos > start
  THEN LET parent == (pos - 1) \div 2
       IN  IF le(data[pos + 1], data[parent + 1]) THEN data
           ELSE sift_up(swap(data, pos, parent), start, parent)
  ELSE data

\* push that appends the item and leaves it where it is (Vec::push)
push_unsifted(data, item) == Append(data, item)

\* BinaryHeap::push
push(data, item) == sift_up(Append(data, item), 0, Len(data))

RECURSIVE sift_down_to_bottom(_, _, _)
\* BinaryHeap::sift_down_to_bottom(start) with the hole at pos: the hole
\* sinks to a leaf along the greater child (the right one on a tie), then
\* the element rises again with sift_up
sift_down_to_bottom(data, start, pos) ==
  LET end == Len(data)
      child == 2 * pos + 1
      last == IF end >= 2 THEN end - 2 ELSE 0
  IN  IF child <= last
      THEN LET c == IF le(data[child + 1], data[child + 2]) THEN child + 1
                    ELSE child
           IN  sift_down_to_bottom(swap(data, pos, c), start, c)
      ELSE IF child = end - 1
      THEN sift_up(swap(data, pos, child), start, child)
      ELSE sift_up(data, start, pos)

\* pop that takes the last element of the vector, not the greatest
pop_last(data) ==
  IF data = <<>> THEN [item |-> None, data |-> data]
  ELSE [item |-> Some(data[Len(data)]),
        data |-> SubSeq(data, 1, Len(data) - 1)]

\* BinaryHeap::pop: [item, data]; the last element replaces the greatest
pop(data) ==
  IF data = <<>> THEN [item |-> None, data |-> data]
  ELSE LET last == data[Len(data)]
           rest == SubSeq(data, 1, Len(data) - 1)
       IN  IF rest = <<>> THEN [item |-> Some(last), data |-> rest]
           ELSE [item |-> Some(rest[1]),
                 data |-> sift_down_to_bottom([rest EXCEPT ![1] = last], 0, 0)]

\* BinaryHeap::peek
peek(data) == IF data = <<>> THEN None ELSE Some(data[1])

-----------------------------------------------------------------------------
(* beam_search_action *)

RECURSIVE expand_stamp_always(_, _, _, _)
\* expand that stamps first_action at every level (no t == 0 test)
expand_stamp_always(beam, now_state, actions, depth) ==
  IF actions = <<>> THEN [panic |-> "", beam |-> beam]
  ELSE LET action == Head(actions)
           adv == evaluate_score(advance(now_state, action))
           next_state == [adv EXCEPT !.first_action = Some(action)]
       IN  IF advance_panics(now_state, action)
           THEN [panic |-> "index", beam |-> beam]
           ELSE expand_stamp_always(push(beam, next_state), now_state,
                                    Tail(actions), depth)

RECURSIVE expand_stamp_late(_, _, _, _)
\* expand that stamps first_action at the second level (t == 1 for t == 0)
expand_stamp_late(beam, now_state, actions, depth) ==
  IF actions = <<>> THEN [panic |-> "", beam |-> beam]
  ELSE LET action == Head(actions)
           adv == evaluate_score(advance(now_state, action))
           next_state == IF depth = 1
                         THEN [adv EXCEPT !.first_action = Some(action)]
                         ELSE adv
       IN  IF advance_panics(now_state, action)
           THEN [panic |-> "index", beam |-> beam]
           ELSE expand_stamp_late(push(beam, next_state), now_state,
                                  Tail(actions), depth)

RECURSIVE expand_in_place(_, _, _, _)
\* expand that advances the popped state itself for every action (no
\* clone), so that a child starts from its elder sibling
expand_in_place(beam, now_state, actions, depth) ==
  IF actions = <<>> THEN [panic |-> "", beam |-> beam]
  ELSE LET action == Head(actions)
           adv == evaluate_score(advance(now_state, action))
           next_state == IF depth = 0
                         THEN [adv EXCEPT !.first_action = Some(action)]
                         ELSE adv
       IN  IF advance_panics(now_state, action)
           THEN [panic |-> "index", beam |-> beam]
           ELSE expand_in_place(push(beam, next_state), next_state,
                                Tail(actions), depth)

RECURSIVE expand(_, _, _, _)
\* the for loop over the legal actions of a popped state: every child is
\* advanced, evaluated, stamped with the action at t = 0 and pushed
expand(beam, now_state, actions, depth) ==
  IF actions = <<>> THEN [panic |-> "", beam |-> beam]
  ELSE LET action == Head(actions)
           adv == evaluate_score(advance(now_state, action))
           next_state == IF depth = 0
                         THEN [adv EXCEPT !.first_action = Some(action)]
                         ELSE adv
       IN  IF advance_panics(now_state, action)
           THEN [panic |-> "index", beam |-> beam]
           ELSE expand(push(beam, next_state), now_state, Tail(actions), depth)

RECURSIVE width_loop(_, _, _, _)
\* for _ in 0..beam_width with k rounds left, as a function of the two
\* frontiers: [panic, now, next]
width_loop(now, next, k, depth) ==
  IF k = 0 THEN [panic |-> "", now |-> now, next |-> next]
  ELSE LET p == pop(now)
       IN  IF is_some(p.item)
           THEN LET e == expand(next, unwrap(p.item),
                                legal_actions(unwrap(p.item)), depth)
                IN  IF e.panic # ""
                    THEN [panic |-> e.panic, now |-> p.data, next |-> e.beam]
                    ELSE width_loop(p.data, e.beam, k - 1, depth)
           ELSE width_loop(p.data, next, k - 1, depth)

RECURSIVE depth_loop(_, _, _, _, _)
\* for t in depth..bd, as a function of the frontier: [panic, best_state]
depth_loop(now, best, depth, bw, bd) ==
  IF depth >= bd THEN [panic |-> "", best_state |-> best]
  ELSE LET lvl == width_loop(now, <<>>, bw, depth)
       IN  IF lvl.panic # "" THEN [panic |-> lvl.panic, best_state |-> best]
           ELSE IF ~is_some(peek(lvl.next))
           THEN [panic |-> "unwrap", best_state |-> None]
           ELSE IF is_done(unwrap(peek(lvl.next)))
           THEN [panic |-> "", best_state |-> peek(lvl.next)]
           ELSE depth_loop(lvl.next, peek(lvl.next), depth + 1, bw, bd)

\* fn beam_search_action(&self, beam_width, beam_depth) as a function of its
\* arguments alone: [panic, action]
beam_search_action(s, bw, bd) ==
  LET r == depth_loop(push(<<>>, s), None, 0, bw, bd)
  IN  IF r.panic # "" THEN [panic |-> r.panic, action |-> None]
      ELSE IF is_some(r.best_state)
              /\ is_some(unwrap(r.best_state).first_action)
      THEN [panic |-> "", action |-> unwrap(r.best_state).first_action]
      ELSE [panic |-> "unwrap", action |-> None]

-----------------------------------------------------------------------------
(* Construction *)

\* the boards of h rows and w columns with cell values 0..MaxPoint
Boards(h, w) == [0 .. h - 1 -> [0 .. w - 1 -> 0 .. MaxPoint]]

\* MazeState::from_seed: turn 0, scores 0, no first action; the cell the
\* character starts on holds no points
new_state(board, y, x) ==
  [points |-> board, turn |-> 0, character |-> [y |-> y, x |-> x],
   game_score |-> 0, evaluated_score |-> 0, first_action |-> None]

\* everything but the board, the start and the game's length
InitRest ==
  /\ pc = "driver" /\ sel = "" /\ beam_width = 0 /\ beam_depth = 0
  /\ t = 0 /\ w_iter = 0 /\ now_beam = <<>> /\ next_beam = <<>>
  /\ best_state = None /\ expanded = <<>> /\ result = None /\ panic = ""

\* a game on any board of at most MaxCells cells
InitBounded ==
  \E h \in 1 .. MaxCells, w \in 1 .. MaxCells, e \in 1 .. MaxEndTurn :
    /\ h * w <= MaxCells
    /\ \E y \in 0 .. h - 1, x \in 0 .. w - 1 :
      \E board \in Boards(h, w) :
        /\ board[y][x] = 0
        /\ H = h /\ W = w /\ END_TURN = e
        /\ points0 = board
        /\ state = new_state(board, y, x)

\* a game on any 2 x 2 board, from any cell
InitSquare ==
  \E e \in 1 .. MaxEndTurn, y \in 0 .. 1, x \in 0 .. 1 :
    \E board \in Boards(2, 2) :
      /\ board[y][x] = 0
      /\ H = 2 /\ W = 2 /\ END_TURN = e
      /\ points0 = board
      /\ state = new_state(board, y, x)

\* the board of the end-to-end scenario: 2 x 2, two turns, start (0,0),
\* (0,1) = 5, (1,0) = 3, (1,1) = 9
ScenarioBoard == [y \in 0 .. 1 |-> [x \in 0 .. 1 |->
  IF y = 0 /\ x = 1 THEN 5 ELSE IF y = 1 /\ x = 0 THEN 3
  ELSE IF y = 1 /\ x = 1 THEN 9 ELSE 0]]

InitScenario ==
  /\ H = 2 /\ W = 2 /\ END_TURN = 2
  /\ points0 = ScenarioBoard
  /\ state = new_state(ScenarioBoard, 0, 0)

\* a 3 x 3 board with the character in the centre, where all four actions
\* are legal: the four neighbours hold any values, the corners none
InitCentre ==
  \E e \in 1 .. MaxEndTurn :
    \E r, l, d, u \in 0 .. MaxPoint :
      LET board == [y \in 0 .. 2 |-> [x \in 0 .. 2 |->
                      IF y = 1 /\ x = 2 THEN r ELSE IF y = 1 /\ x = 0 THEN l
                      ELSE IF y = 2 /\ x = 1 THEN d
                      ELSE IF y = 0 /\ x = 1 THEN u ELSE 0]]
      IN  /\ H = 3 /\ W = 3 /\ END_TURN = e
          /\ points0 = board
          /\ state = new_state(board, 1, 1)

\* a 3 x 3 board with the character in the centre and a fork: the right and
\* the left neighbour hold the same value, and one more cell, the lower left
\* corner, reachable through the left neighbour only, holds any value
InitFork ==
  \E e \in 1 .. MaxEndTurn :
    \E v, c \in 0 .. MaxPoint :
      LET board == [y \in 0 .. 2 |-> [x \in 0 .. 2 |->
                      IF y = 1 /\ x \in {0, 2} THEN v
                      ELSE IF y = 2 /\ x = 0 THEN c ELSE 0]]
      IN  /\ H = 3 /\ W = 3 /\ END_TURN = e
          /\ points0 = board
          /\ state = new_state(board, 1, 1)

Init ==
  (InitBounded \/ InitSquare \/ InitScenario \/ InitCentre \/ InitFork)
    /\ InitRest

-----------------------------------------------------------------------------
(* The driver loop and the selectors *)

search_vars == <<t, w_iter, now_beam, next_beam, best_state, expanded>>
game_vars == <<H, W, END_TURN, points0>>

\* state.random_action(): one of the legal actions, whichever the generator
\* draws; an empty range panics
RandomCall ==
  /\ pc = "driver" /\ ~is_done(state)
  /\ sel' = "random"
  /\ IF legal_actions(state) = <<>>
     THEN pc' = "panic" /\ panic' = "empty range" /\ result' = None
     ELSE \E k \in 1 .. Len(legal_actions(state)) :
            /\ result' = Some(legal_actions(state)[k])
            /\ pc' = "returned" /\ panic' = panic
  /\ UNCHANGED <<game_vars, state, beam_width, beam_depth, search_vars>>

\* state.greedy_action()
GreedyCall ==
  /\ pc = "driver" /\ ~is_done(state)
  /\ sel' = "greedy"
  /\ LET r == greedy_action(state)
     IN  /\ result' = r.action
         /\ panic' = r.panic
         /\ pc' = IF r.panic # "" THEN "panic" ELSE "returned"
  /\ UNCHANGED <<game_vars, state, beam_width, beam_depth, search_vars>>

\* BeamCall that pushes the state onto the frontier the last call left
\* behind (a frontier kept between calls, not a new BinaryHeap)
BeamCall_stale ==
  /\ pc = "driver" /\ ~is_done(state)
  /\ \E bw \in (0 .. MaxWidth) \cup {Len(legal_actions(state))},
          bd \in 0 .. MaxDepth :
       beam_width' = bw /\ beam_depth' = bd
  /\ sel' = "beam"
  /\ now_beam' = push(now_beam, state)
  /\ next_beam' = <<>>
  /\ best_state' = None
  /\ expanded' = <<>>
  /\ result' = None
  /\ t' = 0 /\ w_iter' = 0
  /\ pc' = "for_t"
  /\ UNCHANGED <<game_vars, state, panic>>

\* state.beam_search_action(bw, bd), up to the depth loop: the frontier
\* holds a clone of the state
BeamCall ==
  /\ pc = "driver" /\ ~is_done(state)
  /\ \E bw \in (0 .. MaxWidth) \cup {Len(legal_actions(state))},
          bd \in 0 .. MaxDepth :
       beam_width' = bw /\ beam_depth' = bd
  /\ sel' = "beam"
  /\ now_beam' = push(<<>>, state)
  /\ next_beam' = <<>>
  /\ best_state' = None
  /\ expanded' = <<>>
  /\ result' = None
  /\ t' = 0 /\ w_iter' = 0
  /\ pc' = "for_t"
  /\ UNCHANGED <<game_vars, state, panic>>

\* for t in 0..beam_depth: a new, empty next frontier, or the loop's end
BeamLoopHead ==
  /\ pc = "for_t"
  /\ IF t < beam_depth
     THEN next_beam' = <<>> /\ w_iter' = 0 /\ expanded' = <<>> /\ pc' = "for_w"
     ELSE pc' = "ret" /\ UNCHANGED <<next_beam, w_iter, expanded>>
  /\ UNCHANGED <<game_vars, state, sel, beam_width, beam_depth, t, now_beam,
                 best_state, result, panic>>

\* one round of for _ in 0..beam_width: pop the greatest state, if any, and
\* push its children
BeamExpand ==
  /\ pc = "for_w" /\ w_iter < beam_width
  /\ LET p == pop(now_beam)
     IN  /\ now_beam' = p.data
         /\ IF is_some(p.item)
            THEN LET e == expand(next_beam, unwrap(p.item),
                                 legal_actions(unwrap(p.item)), t)
                 IN  /\ next_beam' = e.beam
                     /\ expanded' = Append(expanded, unwrap(p.item))
                     /\ panic' = e.panic
                     /\ pc' = IF e.panic # "" THEN "panic" ELSE pc
            ELSE UNCHANGED <<next_beam, expanded, panic, pc>>
  /\ w_iter' = w_iter + 1
  /\ UNCHANGED <<game_vars, state, sel, beam_width, beam_depth, t,
                 best_state, result>>

\* BeamLevelEnd without the test of is_done: every level up to beam_depth
\* is expanded
BeamLevelEnd_no_break ==
  /\ pc = "for_w" /\ w_iter >= beam_width
  /\ now_beam' = next_beam
  /\ next_beam' = <<>>
  /\ best_state' = peek(next_beam)
  /\ IF ~is_some(peek(next_beam))
     THEN pc' = "panic" /\ panic' = "unwrap" /\ t' = t
     ELSE panic' = panic /\ pc' = "for_t" /\ t' = t + 1
  /\ UNCHANGED <<game_vars, state, sel, beam_width, beam_depth, w_iter,
                 expanded, result>>

\* the end of a level: the next frontier becomes the current one, its
\* greatest state is peeked and unwrapped, and a terminal one ends the loop
BeamLevelEnd ==
  /\ pc = "for_w" /\ w_iter >= beam_width
  /\ now_beam' = next_beam
  /\ next_beam' = <<>>
  /\ best_state' = peek(next_beam)
  /\ IF ~is_some(peek(next_beam))
     THEN pc' = "panic" /\ panic' = "unwrap" /\ t' = t
     ELSE /\ panic' = panic
          /\ IF is_done(unwrap(peek(next_beam)))
             THEN pc' = "ret" /\ t' = t
             ELSE pc' = "for_t" /\ t' = t + 1
  /\ UNCHANGED <<game_vars, state, sel, beam_width, beam_depth, w_iter,
                 expanded, result>>

\* BeamReturn that falls back to action 0 when there is no best state or
\* no first action (unwrap_or for unwrap)
BeamReturn_default ==
  /\ pc = "ret"
  /\ result' = IF is_some(best_state) /\ is_some(unwrap(best_state).first_action)
               THEN unwrap(best_state).first_action
               ELSE Some(0)
  /\ pc' = "returned" /\ panic' = panic
  /\ UNCHANGED <<game_vars, state, sel, beam_width, beam_depth, search_vars>>

\* best_state.unwrap().first_action.unwrap()
BeamReturn ==
  /\ pc = "ret"
  /\ IF is_some(best_state) /\ is_some(unwrap(best_state).first_action)
     THEN /\ result' = unwrap(best_state).first_action
          /\ pc' = "returned" /\ panic' = panic
     ELSE pc' = "panic" /\ panic' = "unwrap" /\ result' = None
  /\ UNCHANGED <<game_vars, state, sel, beam_width, beam_depth, search_vars>>

\* state.advance(action) with the action the selector returned, and back to
\* the loop's test
DriverAdvance ==
  /\ pc = "returned"
  /\ state' = advance(state, unwrap(result))
  /\ IF advance_panics(state, unwrap(result))
     THEN pc' = "panic" /\ panic' = "index"
     ELSE pc' = "driver" /\ panic' = panic
  /\ UNCHANGED <<game_vars, sel, beam_width, beam_depth, search_vars, result>>

Next ==
  \/ RandomCall
  \/ GreedyCall
  \/ BeamCall
  \/ BeamLoopHead
  \/ BeamExpand
  \/ BeamLevelEnd
  \/ BeamReturn
  \/ DriverAdvance

Spec == Init /\ [][Next]_vars

-----------------------------------------------------------------------------
(* Vocabulary of the properties *)

\* the elements of a sequence
Range(q) == {q[k] : k \in DOMAIN q}

\* the cells of a board
Cells(b) == {<<y, x>> : y \in DOMAIN b, x \in DOMAIN b[0]}

RECURSIVE SumFrom(_, _, _, _)
\* the sum of b's values over the cells among the first n (row by row) for
\* which keep[row][column] holds
SumFrom(b, keep, width, n) ==
  IF n = 0 THEN 0
  ELSE LET y == (n - 1) \div width
           x == (n - 1) % width
       IN  (IF keep[y][x] THEN b[y][x] ELSE 0) + SumFrom(b, keep, width, n - 1)

\* the sum of all of a board's values
BoardSum(b) ==
  SumFrom(b, [y \in DOMAIN b |-> [x \in DOMAIN b[y] |-> TRUE]], W, H * W)

\* the candidate states a search holds
Candidates == Range(now_beam) \cup Range(next_beam) \cup Range(best_state)

\* the position the claim's table of moves gives for an action:
\* 0 Right (col + 1), 1 Left (col - 1), 2 Down (row + 1), 3 Up (row - 1)
Target(s, a) ==
  CASE a = 0 -> [y |-> s.character.y, x |-> s.character.x + 1]
    [] a = 1 -> [y |-> s.character.y, x |-> s.character.x - 1]
    [] a = 2 -> [y |-> s.character.y + 1, x |-> s.character.x]
    [] a = 3 -> [y |-> s.character.y - 1, x |-> s.character.x]

\* the evaluated score of the state an action leads to
ScoreAfter(s, a) == evaluate_score(advance(s, a)).evaluated_score

\* a selector has returned an action for the driver's state
Returned(name) == pc = "returned" /\ sel = name

\* the driver's state is the start of the end-to-end scenario
AtScenarioStart ==
  /\ H = 2 /\ W = 2 /\ END_TURN = 2
  /\ state = new_state(ScenarioBoard, 0, 0)

-----------------------------------------------------------------------------
(* C1 *)

InBounds(s) ==
  /\ 0 <= s.character.y /\ s.character.y < H
  /\ 0 <= s.character.x /\ s.character.x < W
  /\ 0 <= s.turn /\ s.turn <= END_TURN

\* C1: in every state the driver loop reaches, whichever selector or legal
\* action it advances with, the character is on the board (0 <= row < H,
\* 0 <= col < W) and 0 <= turn <= END_TURN.
C1_Bounds == InBounds(state)

\* the driver has advanced to the end of a two-turn game
C1_Witness == pc = "driver" /\ END_TURN = 2 /\ state.turn = 2

-----------------------------------------------------------------------------
(* C2 *)

\* the cells whose points a visit has zeroed: zero now, not zero at first
Zeroed(s) ==
  [y \in DOMAIN points0 |-> [x \in DOMAIN points0[y] |->
     s.points[y][x] = 0 /\ points0[y][x] # 0]]

C2_Conserved(s) ==
  /\ s.game_score = SumFrom(points0, Zeroed(s), W, H * W)
  /\ s.game_score + BoardSum(s.points) = BoardSum(points0)

\* C2: along any sequence of advances from the initial state game_score
\* never decreases, and it always equals the sum of the initial values of
\* the cells zeroed so far (so game_score plus the board's current sum is the
\* board's initial sum).
C2_Score ==
  /\ []C2_Conserved(state)
  /\ [][state'.game_score >= state.game_score]_vars

\* two advances, the second of which collected points
C2_Witness ==
  /\ pc = "driver" /\ state.turn = 2 /\ state.game_score > 0
  /\ \E c, d \in Cells(points0) :
       c # d /\ Zeroed(state)[c[1]][c[2]] /\ Zeroed(state)[d[1]][d[2]]

-----------------------------------------------------------------------------
(* C3 *)

\* C3: the action greedy_action returns leads to an evaluated score no less
\* than that of any legal action of the same state.
C3_GreedyBest ==
  Returned("greedy") =>
    \A a \in Range(legal_actions(state)) :
      ScoreAfter(state, unwrap(result)) >= ScoreAfter(state, a)

\* greedy_action returned the better of two actions with different scores,
\* and it is not the last one enumerated
C3_Witness ==
  /\ Returned("greedy")
  /\ \E a \in Range(legal_actions(state)) :
       /\ a > unwrap(result)
       /\ ScoreAfter(state, a) < ScoreAfter(state, unwrap(result))

-----------------------------------------------------------------------------
(* C4 *)

\* C4: beam_search_action with beam_width = the number of legal actions and
\* beam_depth = 1 returns the action greedy_action returns on the same
\* state, ties included.
C4_BeamIsGreedy ==
  (/\ Returned("beam") /\ beam_depth = 1
   /\ beam_width = Len(legal_actions(state)))
    => result = greedy_action(state).action

\* such a call on a state with four legal actions, two of which tie on the
\* greatest score
C4_Witness ==
  /\ Returned("beam") /\ beam_depth = 1
  /\ beam_width = 4 /\ Len(legal_actions(state)) = 4
  /\ \E a, b \in Range(legal_actions(state)) :
       /\ a < b
       /\ ScoreAfter(state, a) = ScoreAfter(state, b)
       /\ \A c \in Range(legal_actions(state)) :
            ScoreAfter(state, c) <= ScoreAfter(state, a)

-----------------------------------------------------------------------------
(* C5 *)

\* the scores and first actions of a frontier, as a set of pairs
Summary(beam) == {<<s.evaluated_score, s.first_action>> : s \in Range(beam)}

ScenarioCall ==
  AtScenarioStart /\ sel = "beam" /\ beam_width = 1 /\ beam_depth = 2

\* C5: on the scenario, beam_search_action(1, 2) returns 0: level 0 leaves
\* the children Right (score 5) and Down (score 3), level 1 expands only
\* Right, into Left (score 5) and Down (score 14), and the terminal state of
\* score 14 is the top of the final frontier and carries first action 0.
C5_Scenario ==
  ScenarioCall =>
    /\ (pc = "for_t" /\ t = 1) =>
         /\ Len(now_beam) = 2
         /\ Summary(now_beam) = {<<5, Some(0)>>, <<3, Some(2)>>}
    /\ (pc = "for_w" /\ t = 1 /\ w_iter = 1) =>
         /\ Summary(now_beam) = {<<3, Some(2)>>}
         /\ Len(next_beam) = 2
         /\ Summary(next_beam) = {<<5, Some(0)>>, <<14, Some(0)>>}
         /\ {s.character : s \in Range(next_beam)}
              = {[y |-> 0, x |-> 0], [y |-> 1, x |-> 1]}
    /\ pc = "ret" =>
         /\ t = 1
         /\ best_state = peek(now_beam)
         /\ unwrap(best_state).evaluated_score = 14
         /\ is_done(unwrap(best_state))
         /\ unwrap(best_state).first_action = Some(0)
    /\ pc = "returned" => result = Some(0)
    /\ pc # "panic"

\* the scenario's call has returned
C5_Witness == ScenarioCall /\ pc = "returned" /\ t = 1 /\ Len(now_beam) = 2

-----------------------------------------------------------------------------
(* C6 *)

\* C6: the action greedy_action returns, and the action beam_search_action
\* returns for beam_width >= 1 and beam_depth >= 1, is a legal action of the
\* state the selector was called on.
C6_ResultLegal ==
  (\/ Returned("greedy")
   \/ Returned("beam") /\ beam_width >= 1 /\ beam_depth >= 1)
    => /\ is_some(result)
       /\ unwrap(result) \in Range(legal_actions(state))

\* a search of two levels returned, from a state where not every action is
\* legal and whose children have other legal actions than it has
C6_Witness ==
  /\ Returned("beam") /\ beam_depth = 2 /\ t = 1
  /\ Len(legal_actions(state)) < 4
  /\ \E s \in Range(now_beam) :
       Range(legal_actions(s)) \ Range(legal_actions(state)) # {}

-----------------------------------------------------------------------------
(* C7 *)

\* C7: legal_actions holds action a exactly when the cell a's move leads to
\* is on the board (0 <= row < H and 0 <= col < W), and lists the actions in
\* increasing order; at the scenario's start it is <<0, 2>>.
C7_LegalActions ==
  /\ \A a \in 0 .. 3 :
       a \in Range(legal_actions(state)) <=>
         /\ 0 <= Target(state, a).y /\ Target(state, a).y < H
         /\ 0 <= Target(state, a).x /\ Target(state, a).x < W
  /\ Range(legal_actions(state)) \subseteq 0 .. 3
  /\ \A j, k \in DOMAIN legal_actions(state) :
       j < k => legal_actions(state)[j] < legal_actions(state)[k]
  /\ AtScenarioStart => legal_actions(state) = <<0, 2>>
  /\ (pc = "returned" /\ sel = "random") =>
       unwrap(result) \in Range(legal_actions(state))

\* random_action drew Down, the second of the two legal actions, at the
\* scenario's start
C7_Witness ==
  /\ AtScenarioStart /\ Returned("random")
  /\ legal_actions(state) = <<0, 2>> /\ result = Some(2)

-----------------------------------------------------------------------------
(* C8 *)

ZeroParameter == sel = "beam" /\ (beam_width = 0 \/ beam_depth = 0)

\* C8: beam_search_action with beam_width = 0 or beam_depth = 0 returns no
\* action: it never expands a state, its frontier is empty at the peek and
\* its best state is None at the final unwrap, so the call can only end in
\* the panic.
C8_ZeroParameterFatal ==
  ZeroParameter =>
    /\ pc \in {"for_t", "for_w", "ret", "panic"}
    /\ result = None
    /\ best_state = None
    /\ next_beam = <<>>
    /\ t = 0
    /\ pc = "panic" => panic = "unwrap"

\* a call with beam_width = 0 and beam_depth = 2 has panicked
C8_Witness ==
  /\ pc = "panic" /\ sel = "beam" /\ beam_width = 0 /\ beam_depth = 2
  /\ panic = "unwrap" /\ now_beam = <<>>

-----------------------------------------------------------------------------
(* C9 *)

\* C9: on a state with no legal action (the 1 x 1 board) neither
\* greedy_action nor beam_search_action returns an action: greedy_action
\* panics at once, and beam_search_action adds nothing to a frontier and so
\* can only end in the panic.
C9_NoLegalActionFatal ==
  (legal_actions(state) = <<>> /\ sel \in {"greedy", "beam"}) =>
    /\ pc \in {"for_t", "for_w", "ret", "panic"}
    /\ result = None
    /\ best_state = None
    /\ next_beam = <<>>
    /\ sel = "greedy" => pc = "panic"
    /\ pc = "panic" => panic = "unwrap"

\* beam_search_action(1, 1) on the 1 x 1 board has popped the root, found
\* no child and panicked
C9_Witness ==
  /\ H = 1 /\ W = 1 /\ legal_actions(state) = <<>>
  /\ sel = "beam" /\ beam_width >= 1 /\ beam_depth >= 1
  /\ pc = "panic" /\ w_iter >= 1 /\ now_beam = <<>>

-----------------------------------------------------------------------------
(* C10 *)

\* the board has two cells or more, and the last call, if it was
\* beam_search_action, had beam_width >= 1 and beam_depth >= 1
ValidInput == (H >= 2 \/ W >= 2) /\ ~ZeroParameter

\* C10: on valid input no selector and no advance panics: a frontier is not
\* empty when it is peeked, the best state at the final unwrap exists and
\* has its first action, and every candidate is on the board (the index of
\* advance is in range).
C10_NoFatal ==
  ValidInput =>
    /\ pc # "panic" /\ panic = ""
    /\ (pc = "for_w" /\ w_iter >= beam_width) => next_beam # <<>>
    /\ pc = "ret" =>
         /\ is_some(best_state)
         /\ is_some(unwrap(best_state).first_action)
    /\ pc = "returned" =>
         /\ is_some(result)
         /\ ~advance_panics(state, unwrap(result))
    /\ \A s \in Candidates : index_ok(s, s.character.y, s.character.x)

\* a search of width 1 went two levels deep, left a state unexpanded at the
\* second level and returned
C10_Witness ==
  /\ ValidInput /\ Returned("beam") /\ beam_width = 1 /\ beam_depth = 2
  /\ t = 1 /\ Len(now_beam) >= 2

-----------------------------------------------------------------------------
(* C11 *)

-----------------------------------------------------------------------------
(* C12 *)

\* the steps one call of a selector can still take, at most: a level of
\* the search is one step for its head, beam_width pops and one step for
\* its end
StepsLeftInCall ==
  CASE pc = "for_t" -> 2 + (beam_depth - t) * (beam_width + 2)
    [] pc = "for_w" -> 1 + (beam_depth - t) * (beam_width + 2) - w_iter
    [] pc = "ret" -> 1
    [] pc = "returned" -> 0
    [] pc = "panic" -> -1
    [] pc = "driver" -> 3 + MaxDepth * (MaxWidth + 6)

\* a bound on the steps the whole game can still take
StepsLeft ==
  (END_TURN - state.turn) * (4 + MaxDepth * (MaxWidth + 6)) + StepsLeftInCall

\* C12: every advance of the driver adds exactly one to turn, and nothing
\* else changes turn; once turn = END_TURN the loop has ended and no step is
\* taken any more; before that the loop goes on (is_done is false, so a
\* selector is called, and a call in progress always has its next step),
\* and every step lowers a bound on the steps left, so that the game gets
\* to turn = END_TURN unless a selector panics.  As turn starts at 0, that is
\* after exactly END_TURN advances.
C12_Turns ==
  /\ [][pc = "returned" =>
         /\ state'.turn = state.turn + 1
         /\ pc' = "driver"]_vars
  /\ [][pc # "returned" => state'.turn = state.turn]_vars
  /\ [][state.turn < END_TURN]_vars
  /\ [](state.turn = END_TURN => pc = "driver")
  /\ [](is_done(state) <=> state.turn = END_TURN)
  /\ [](pc \in {"driver", "for_t", "for_w", "ret", "returned", "panic"})
  /\ [](StepsLeft >= -1)
  /\ [][StepsLeft' < StepsLeft]_vars

\* a game of two turns driven by beam_search_action has ended
C12_Witness ==
  /\ pc = "driver" /\ sel = "beam" /\ beam_depth = 2
  /\ END_TURN = 2 /\ state.turn = END_TURN

-----------------------------------------------------------------------------
(* C13 *)

\* how often a value occurs in a sequence
Count(q, v) == Cardinality({k \in DOMAIN q : q[k] = v})

\* c is what one advance of a clone of parent e makes: one legal move away,
\* one turn later, its own cell collected and zeroed, and every other cell
\* of the board as in e
CloneAdvanced(e, c) ==
  /\ \E a \in Range(legal_actions(e)) : c.character = Target(e, a)
  /\ c.turn = e.turn + 1
  /\ c.game_score = e.game_score + e.points[c.character.y][c.character.x]
  /\ \A y \in DOMAIN e.points : \A x \in DOMAIN e.points[y] :
       c.points[y][x] = IF y = c.character.y /\ x = c.character.x THEN 0
                        ELSE e.points[y][x]

\* C13: no step of a selector changes the state it was called on, so the
\* state is after the call as before it (only the driver's advance changes
\* it); every child in the next frontier is one advance of a clone of a
\* popped parent and shows no trace of its siblings' moves; and pushing
\* children changes no candidate already in a frontier.
C13_Frame ==
  /\ [][pc # "returned" => state' = state]_vars
  /\ [][pc = "returned" => state' # state]_vars
  /\ []((sel = "beam" /\ pc = "for_w") =>
          \A c \in Range(next_beam) :
            \E k \in DOMAIN expanded : CloneAdvanced(expanded[k], c))
  /\ [][(pc = "for_w" /\ w_iter' = w_iter + 1) =>
         /\ \A v \in Range(next_beam) :
              Count(next_beam', v) >= Count(next_beam, v)
         /\ \A v \in Range(now_beam') :
              Count(now_beam', v) <= Count(now_beam, v)
         /\ Len(now_beam') >= Len(now_beam) - 1]_vars

\* two parents have been expanded at the second level of a search; the
\* next frontier holds children with different boards, and the state the
\* search was called on still has its first board
C13_Witness ==
  /\ sel = "beam" /\ pc = "for_w" /\ t = 1 /\ Len(expanded) = 2
  /\ state.points = points0 /\ state.turn = 0
  /\ \E c, d \in Range(next_beam) :
       c.points # d.points /\ c.points # points0 /\ d.points # points0

-----------------------------------------------------------------------------
(* C14 *)

Min(a, b) == IF a < b THEN a ELSE b

RECURSIVE ChildrenOf(_, _)
\* the number of legal actions of the first k states popped at this level
ChildrenOf(q, k) ==
  IF k = 0 THEN 0 ELSE ChildrenOf(q, k - 1) + Len(legal_actions(q[k]))

\* C14: while a level is expanded, the states popped so far are w_iter
\* states, or all of the frontier when it held fewer than w_iter; each was
\* at least as high in evaluated score as the ones popped after it and as
\* every state left in the frontier; and the next frontier holds one child
\* per legal action of each popped state, none dropped, however many more
\* than beam_width that makes.
C14_Level ==
  (sel = "beam" /\ pc = "for_w") =>
    /\ w_iter <= beam_width
    /\ Len(expanded) = Min(w_iter, Len(expanded) + Len(now_beam))
    /\ \A j, k \in DOMAIN expanded :
         j < k => expanded[k].evaluated_score <= expanded[j].evaluated_score
    /\ \A k \in DOMAIN expanded : \A u \in Range(now_beam) :
         u.evaluated_score <= expanded[k].evaluated_score
    /\ Len(next_beam) = ChildrenOf(expanded, Len(expanded))
    /\ \A k \in DOMAIN expanded : \A a \in Range(legal_actions(expanded[k])) :
         \E c \in Range(next_beam) :
           /\ c.character = Target(expanded[k], a)
           /\ c.evaluated_score = ScoreAfter(expanded[k], a)

\* a level is expanded to its width, states are left over in the frontier,
\* and the next frontier holds more states than the width
C14_Witness ==
  /\ sel = "beam" /\ pc = "for_w" /\ t = 1
  /\ w_iter = beam_width /\ Len(expanded) = beam_width
  /\ Len(now_beam) >= 1 /\ Len(next_beam) > beam_width
  /\ \E u \in Range(now_beam) :
       u.evaluated_score < expanded[Len(expanded)].evaluated_score

-----------------------------------------------------------------------------
(* C15 *)

\* the child of the root by action a, as level 0 makes it
First(a) ==
  [evaluate_score(advance(state, a)) EXCEPT !.first_action = Some(a)]

RECURSIVE Descendants(_, _)
\* the states n legal moves below s, each advanced from a clone of its parent
Descendants(s, n) ==
  IF n = 0 THEN {s}
  ELSE UNION {Descendants(evaluate_score(advance(s, a)), n - 1) :
                a \in Range(legal_actions(s))}

\* the search has completed level 0
AfterLevel0 ==
  sel = "beam" /\ (\/ pc \in {"for_t", "for_w"} /\ t >= 1
                   \/ pc = "ret" /\ beam_depth >= 1)

\* the states made by the search that are in a frontier after level 0
Stamped ==
  (IF AfterLevel0 THEN Range(now_beam) ELSE {})
    \cup (IF AfterLevel0 /\ pc = "for_w" THEN Range(expanded) ELSE {})
    \cup (IF sel = "beam" /\ pc = "for_w" THEN Range(next_beam) ELSE {})

\* C15: the root carries no first action; a child made at level 0 is
\* stamped with the action that made it, and a child made at a level
\* t >= 1 carries its parent's first action unchanged; so every state in a
\* frontier after level 0 has a first action, which is legal at the root
\* and is the root move of a line of legal moves that makes that state.
C15_RootAction ==
  /\ ~is_some(state.first_action)
  /\ (sel = "beam" /\ pc = "for_w") =>
       /\ t = 0 => \A e \in Range(expanded) \cup Range(now_beam) :
                     ~is_some(e.first_action)
       /\ \A c \in Range(next_beam) :
            \E k \in DOMAIN expanded :
              \E a \in Range(legal_actions(expanded[k])) :
                c = [evaluate_score(advance(expanded[k], a))
                       EXCEPT !.first_action =
                         IF t = 0 THEN Some(a) ELSE expanded[k].first_action]
  /\ \A c \in Stamped :
       /\ is_some(c.first_action)
       /\ unwrap(c.first_action) \in Range(legal_actions(state))
       /\ c.turn > state.turn
       /\ c \in Descendants(First(unwrap(c.first_action)),
                             c.turn - state.turn - 1)

\* at the second level a child was made by another action than its first
\* action, and the next frontier holds states of two different first
\* actions
C15_Witness ==
  /\ sel = "beam" /\ pc = "for_w" /\ t = 1
  /\ \E c \in Range(next_beam) : \E k \in DOMAIN expanded :
       \E a \in Range(legal_actions(expanded[k])) :
         /\ c = evaluate_score(advance(expanded[k], a))
         /\ a # unwrap(c.first_action)
  /\ \E c, d \in Range(next_beam) : c.first_action # d.first_action

-----------------------------------------------------------------------------
(* C16 *)

\* the number of levels the search has expanded when it leaves the loop: a
\* break leaves t at the level it ended
Levels == IF t < beam_depth THEN t + 1 ELSE beam_depth

\* C16: at the end of a level the greatest member of the new frontier is
\* read and stays in the frontier, which loses nothing; when it is
\* terminal the loop ends there, and otherwise the next level follows; so
\* the search leaves the loop after min(beam_depth, END_TURN - turn) levels.
C16_Levels ==
  /\ [][(sel = "beam" /\ pc = "for_w" /\ pc' \in {"for_t", "ret"}) =>
         /\ now_beam' = next_beam
         /\ best_state' = Some(now_beam'[1])
         /\ \A u \in Range(now_beam') :
              u.evaluated_score <= unwrap(best_state').evaluated_score
         /\ is_done(unwrap(best_state')) <=> pc' = "ret"
         /\ pc' = "ret" => t' = t
         /\ pc' = "for_t" => t' = t + 1]_vars
  /\ []((sel = "beam" /\ pc = "for_t" /\ t >= 1) =>
          /\ best_state = peek(now_beam)
          /\ ~is_done(unwrap(best_state)))
  /\ []((sel = "beam" /\ pc = "ret") =>
          /\ Levels = Min(beam_depth, END_TURN - state.turn)
          /\ Levels >= 1 => best_state = peek(now_beam))

\* a search of depth 2 ends after one level, on a terminal greatest state
\* that is still in a frontier of several states
C16_Witness ==
  /\ sel = "beam" /\ pc = "ret" /\ beam_depth = 2 /\ t = 0
  /\ is_done(unwrap(best_state))
  /\ Len(now_beam) >= 2 /\ best_state = Some(now_beam[1])

-----------------------------------------------------------------------------
(* C17 *)

\* C17: the action the beam search returns is the first action of a member
\* of the final frontier that no member of that frontier exceeds in
\* evaluated score.
C17_BestOfFrontier ==
  Returned("beam") =>
    \E k \in DOMAIN now_beam :
      /\ now_beam[k].first_action = result
      /\ best_state = Some(now_beam[k])
      /\ \A u \in Range(now_beam) :
           u.evaluated_score <= now_beam[k].evaluated_score

\* the search returned from a final frontier that also holds a state of
\* lower score made by another first action, pushed before the best one
C17_Witness ==
  /\ Returned("beam") /\ Len(now_beam) >= 3
  /\ \E u \in Range(now_beam) :
       /\ u.first_action # result
       /\ u.evaluated_score < unwrap(best_state).evaluated_score
       /\ unwrap(u.first_action) < unwrap(result)

-----------------------------------------------------------------------------
(* C18 *)

\* the place of action a in the sequence legal_actions(s) returns
PlaceOf(s, a) == CHOOSE k \in DOMAIN legal_actions(s) : legal_actions(s)[k] = a

\* C18: legal_actions lists actions in the order 0:Right, 1:Left, 2:Down,
\* 3:Up, and among the legal actions that lead to the greatest evaluated
\* score greedy_action returns the one listed first, the one of the
\* smallest index.
C18_FirstOnTies ==
  /\ \A j, k \in DOMAIN legal_actions(state) :
       j < k => legal_actions(state)[j] < legal_actions(state)[k]
  /\ Returned("greedy") =>
       \A a \in Range(legal_actions(state)) :
         /\ ScoreAfter(state, a) <= ScoreAfter(state, unwrap(result))
         /\ ScoreAfter(state, a) = ScoreAfter(state, unwrap(result)) =>
              /\ unwrap(result) <= a
              /\ PlaceOf(state, unwrap(result)) <= PlaceOf(state, a)

\* greedy_action returned an action that is not the first legal one, ahead
\* of a later action of the same score
C18_Witness ==
  /\ Returned("greedy")
  /\ unwrap(result) # legal_actions(state)[1]
  /\ \E a \in Range(legal_actions(state)) :
       /\ a > unwrap(result)
       /\ ScoreAfter(state, a) = ScoreAfter(state, unwrap(result))

-----------------------------------------------------------------------------
(* C19 *)

\* the search is between its call and the driver's use of its result
InSearch == sel = "beam" /\ pc \in {"for_t", "for_w", "ret", "returned"}

\* the turn of the members of the current frontier: the root's turn plus
\* the number of levels completed
FrontierTurn ==
  state.turn + (IF pc \in {"for_t", "for_w"} THEN t ELSE Levels)

\* C19: a search is only ever called on a state with 0 <= turn < END_TURN;
\* the members of the current frontier share one turn, the root's plus the
\* number of completed levels, and the children of level t have turn
\* root.turn + t + 1; so the greatest member of a frontier is terminal
\* exactly when every member is; and no state of the search has a turn
\* beyond END_TURN.
C19_Turns ==
  InSearch =>
    /\ 0 <= state.turn /\ state.turn < END_TURN
    /\ \A c \in Range(now_beam) : c.turn = FrontierTurn
    /\ pc = "for_w" =>
         /\ \A c \in Range(expanded) : c.turn = state.turn + t
         /\ \A c \in Range(next_beam) : c.turn = state.turn + t + 1
    /\ now_beam # <<>> =>
         (is_done(now_beam[1]) <=> \A c \in Range(now_beam) : is_done(c))
    /\ (pc = "for_w" /\ next_beam # <<>>) =>
         (is_done(next_beam[1]) <=> \A c \in Range(next_beam) : is_done(c))
    /\ \A c \in Range(now_beam) \cup Range(next_beam) \cup Range(expanded) :
         c.turn <= END_TURN

\* the children of the second level of a search from turn 0 are terminal,
\* all of them, at turn 2
C19_Witness ==
  /\ sel = "beam" /\ pc = "for_w" /\ t = 1 /\ state.turn = 0
  /\ Len(next_beam) >= 2
  /\ \A c \in Range(next_beam) : c.turn = 2 /\ is_done(c)

-----------------------------------------------------------------------------
(* C20 *)

RECURSIVE Pow4(_)
Pow4(n) == IF n <= 0 THEN 1 ELSE 4 * Pow4(n - 1)

\* the greatest element of a non-empty set of integers
SetMax(S) == CHOOSE m \in S : \A x \in S : x <= m

RECURSIVE Best(_, _)
\* the greatest game score at the end of a sequence of n legal actions from
\* s (the score of s itself when no action is legal)
Best(s, n) ==
  IF n = 0 \/ legal_actions(s) = <<>> THEN s.game_score
  ELSE SetMax({Best(advance(s, a), n - 1) : a \in Range(legal_actions(s))})

\* the number of actions the search looks ahead from the driver's state
Horizon == Min(beam_depth, END_TURN - state.turn)

\* the search is at least as wide as any frontier it can meet
Exhaustive == beam_depth >= 1 /\ beam_width >= Pow4(beam_depth - 1)

\* C20: a beam search at least 4^(beam_depth-1) wide returns a legal
\* action that begins a sequence of min(beam_depth, END_TURN - turn) legal
\* actions whose final game score is the greatest over all such sequences,
\* and its best state has that score.
C20_Exhaustive ==
  (Returned("beam") /\ Exhaustive) =>
    /\ Horizon >= 1
    /\ unwrap(result) \in Range(legal_actions(state))
    /\ Best(advance(state, unwrap(result)), Horizon - 1) = Best(state, Horizon)
    /\ unwrap(best_state).game_score = Best(state, Horizon)

\* an exhaustive search of depth 2 returned another action than the search
\* of width 1 and than greedy_action return from the same state
C20_Witness ==
  /\ Returned("beam") /\ Exhaustive /\ beam_depth = 2 /\ Horizon = 2
  /\ result # beam_search_action(state, 1, 2).action
  /\ result # greedy_action(state).action

====
